---- MODULE Spec2Model ----
(***************************************************************************)
(* gotham: src/handler/error.rs                                            *)
(*                                                                         *)
(* HandlerError (a status code, a type-erased cause and an optional        *)
(* customized response), the conversions and Result combinators that       *)
(* build it, and the MapErrWithStatus future that applies the status       *)
(* mapping to the output of an inner future.                               *)
(***************************************************************************)
EXTENDS Integers, Sequences, FiniteSets, TLC

\* ------------------------------------------------------------- bounds
\* Container operations (conversions, combinators, setters) per run.
MaxOps == 3
\* Polls on which the inner future may still answer Pending.
MaxPending == 2
\* Polls of the MapErrWithStatus wrapper per run.
MaxPolls == 4

\* ------------------------------------------------------------- values
INTERNAL_SERVER_ERROR == 500
\* hyper::StatusCode values the callers pass or render.
StatusCodes == {200, 418, 500}
\* Status codes of the responses the render closures produce.
RenderStatusCodes == {200, 503}
\* Concrete error types E: Into<anyhow::Error> + Display.
ErrorTypes == {"DummyError", "io::Error"}
\* Distinguishable values of one error type.
ErrorMsgs == {1, 2}
\* Values v of the Ok case.
OkValues == {1, 2}
\* Identities of inner futures.
FutureIds == {1, 2}

Errors == [ty : ErrorTypes, msg : ErrorMsgs]

\* Option<T>
None == <<>>
Some(x) == <<x>>
is_some(o) == Len(o) = 1
unwrap(o) == o[1]

\* Result<T, E>
Ok(v) == [ok |-> TRUE, v |-> v]
Err(e) == [ok |-> FALSE, e |-> e]
RawResults == {Ok(v) : v \in OkValues} \cup {Err(e) : e \in Errors}

\* The request State: only its request id is read here.
State == [request_id |-> "req-1"]

\* R: IntoResponse, the value a render closure returns.
Renderables == [status : RenderStatusCodes, body : {"{\"ok\":true}"}]
\* R::into_response(state): the full response of a renderable.
into_response(r, state) ==
    [status |-> r.status, body |-> r.body, request_id |-> state.request_id]

\* F: FnOnce(&State) -> R, a closure by the renderable it returns.
Closures == [ret : Renderables]
\* F: FnOnce(E, &State) -> (E, R): returns an error of the same type E
\* (possibly another value) and a renderable.
ErrClosures == [msg : ErrorMsgs, ret : Renderables]

\* error.into(): the anyhow::Error of an error, the boxed object with its
\* type id.
into(error) == [type_id |-> error.ty, object |-> error]

\* trace!/warn! records.
TraceRecord(text, what) == [level |-> "trace", text |-> text, arg |-> what]

\* ------------------------------------------------------------- HandlerError
\* An effect record: the value returned, the log records emitted, and the
\* number of times the caller's closure was invoked.
Eff(out, trace, calls) == [out |-> out, trace |-> trace, calls |-> calls]

\* Mutant of HandlerError_from: the default status is 200 OK.
HandlerError_from_ok(error) ==
    Eff([status_code |-> 200,
         cause |-> into(error),
         customized_response_body |-> None],
        <<TraceRecord("converting Error to HandlerError", error.ty)>>, 0)

\* impl From<E> for HandlerError
HandlerError_from(error) ==
    Eff([status_code |-> INTERNAL_SERVER_ERROR,
         cause |-> into(error),
         customized_response_body |-> None],
        <<TraceRecord("converting Error to HandlerError", error.ty)>>, 0)

\* HandlerError::status
status(self) == self.status_code

\* Mutant of set_customized_response_body: status_code is not updated from
\* the customized response.
set_customized_response_body_no_sync(self, state, f) ==
    LET body == into_response(f.ret, state) IN
    Eff([self EXCEPT !.customized_response_body = Some(body)], <<>>, 1)

\* Mutant of set_customized_response_body: the error is rebuilt around the
\* response and the cause is replaced.
set_customized_response_body_new_cause(self, state, f) ==
    LET body == into_response(f.ret, state) IN
    Eff([status_code |-> body.status,
         cause |-> [type_id |-> "fmt::Error", object |-> body.body],
         customized_response_body |-> Some(body)],
        <<>>, 1)

\* HandlerError::set_customized_response_body
set_customized_response_body(self, state, f) ==
    LET body == into_response(f.ret, state) IN
    Eff([self EXCEPT !.status_code = body.status,
                     !.customized_response_body = Some(body)],
        <<>>, 1)

\* Mutant of with_status: the struct update keeps the old status_code.
with_status_ignored(self, status_code) == self

\* Mutant of with_status: a customized response body is cleared when the
\* status is overridden.
with_status_clear_body(self, status_code) ==
    [self EXCEPT !.status_code = status_code,
                 !.customized_response_body = None]

\* HandlerError::with_status
with_status(self, status_code) ==
    [self EXCEPT !.status_code = status_code]

\* HandlerError::downcast_cause_ref::<E>: Some(&E) or None
downcast_cause_ref(self, E) ==
    IF self.cause.type_id = E THEN Some(self.cause.object) ELSE None

\* Mutant of downcast_cause_mut: an unchecked cast.
downcast_cause_mut_unchecked(self, E) == Some(self.cause.object)

\* HandlerError::downcast_cause_mut::<E>: Some(&mut E) or None
downcast_cause_mut(self, E) ==
    IF self.cause.type_id = E THEN Some(self.cause.object) ELSE None

\* request_id(state)
request_id(state) == state.request_id

\* StatusCode::canonical_reason().unwrap_or("(unregistered)")
canonical_reason(status_code) ==
    CASE status_code = 200 -> "OK"
      [] status_code = 418 -> "I'm a teapot"
      [] status_code = 500 -> "Internal Server Error"
      [] status_code = 503 -> "Service Unavailable"
      [] OTHER -> "(unregistered)"

\* The warn! record of into_response.
WarnRecord(id, code, reason, cause) ==
    [level |-> "warn", request_id |-> id, status |-> code,
     reason |-> reason, cause |-> cause]

\* create_empty_response(state, status): an empty-bodied response that
\* carries only the status.
create_empty_response(state, status_code) ==
    [status |-> status_code, body |-> "", request_id |-> state.request_id]

\* Mutant of HandlerError_into_response: the customized response body is
\* not looked at.
HandlerError_into_response_empty(self, state) ==
    Eff(create_empty_response(state, self.status_code),
        <<WarnRecord(request_id(state), self.status_code,
                     canonical_reason(self.status_code),
                     self.cause.object)>>, 0)

\* Mutant of HandlerError_into_response: nothing is logged when a
\* customized response body is served.
HandlerError_into_response_silent(self, state) ==
    IF is_some(self.customized_response_body)
    THEN Eff(unwrap(self.customized_response_body), <<>>, 0)
    ELSE Eff(create_empty_response(state, self.status_code),
             <<WarnRecord(request_id(state), self.status_code,
                          canonical_reason(self.status_code),
                          self.cause.object)>>, 0)

\* impl IntoResponse for HandlerError
HandlerError_into_response(self, state) ==
    Eff(IF is_some(self.customized_response_body)
        THEN unwrap(self.customized_response_body)
        ELSE create_empty_response(state, self.status_code),
        <<WarnRecord(request_id(state), self.status_code,
                     canonical_reason(self.status_code),
                     self.cause.object)>>, 0)

\* ------------------------------------------------------------- combinators
\* Mutant of map_err_with_status: the error is converted and the status
\* left at its default.
map_err_with_status_default(self, status_code) ==
    IF self.ok
    THEN Eff(self, <<>>, 0)
    ELSE Eff(Err(HandlerError_from(self.e).out),
             <<TraceRecord("converting Error to HandlerError", self.e.ty)>>, 0)

\* impl MapHandlerError<T> for Result<T, E>
map_err_with_status(self, status_code) ==
    IF self.ok
    THEN Eff(self, <<>>, 0)
    ELSE Eff(Err([status_code |-> status_code,
                  cause |-> into(self.e),
                  customized_response_body |-> None]),
             <<TraceRecord("converting Error to HandlerError", self.e.ty)>>, 0)

\* Mutant of map_err_with_status_HandlerError: the status is not assigned.
map_err_with_status_HandlerError_unassigned(self, status_code) ==
    IF self.ok
    THEN Eff(self, <<>>, 0)
    ELSE Eff(Err(self.e),
             <<TraceRecord("converting Error to HandlerError",
                           self.e.cause.type_id)>>, 0)

\* impl MapHandlerError<T> for Result<T, HandlerError>
map_err_with_status_HandlerError(self, status_code) ==
    IF self.ok
    THEN Eff(self, <<>>, 0)
    ELSE Eff(Err([self.e EXCEPT !.status_code = status_code]),
             <<TraceRecord("converting Error to HandlerError",
                           self.e.cause.type_id)>>, 0)

\* Mutant of map_err_to_customized_response: the original error is boxed
\* instead of the one the closure hands back.
map_err_to_customized_response_original(self, state, f) ==
    IF self.ok
    THEN Eff(self, <<>>, 0)
    ELSE LET body == f.ret
             conv == HandlerError_from(self.e)
             rsp == into_response(body, state)
         IN  Eff(Err([conv.out EXCEPT !.status_code = rsp.status,
                                      !.customized_response_body = Some(rsp)]),
                 <<TraceRecord("map_err_to_customized_response by error",
                               self.e.ty)>> \o conv.trace,
                 1)

\* impl MapHandlerErrorToCustomizedResponse<T, E> for Result<T, E>
map_err_to_customized_response(self, state, f) ==
    IF self.ok
    THEN Eff(self, <<>>, 0)
    ELSE LET e == [ty |-> self.e.ty, msg |-> f.msg]
             body == f.ret
             conv == HandlerError_from(e)
             rsp == into_response(body, state)
         IN  Eff(Err([conv.out EXCEPT !.status_code = rsp.status,
                                      !.customized_response_body = Some(rsp)]),
                 <<TraceRecord("map_err_to_customized_response by error",
                               self.e.ty)>> \o conv.trace,
                 1)

\* impl MapHandlerErrorWithCustomizedResponse<T> for Result<T, E>
map_err_with_customized_response(self, state, f) ==
    IF self.ok
    THEN Eff(self, <<>>, 0)
    ELSE LET conv == HandlerError_from(self.e)
             set == set_customized_response_body(conv.out, state, f)
         IN  Eff(Err(set.out),
                 <<TraceRecord("map_err_with_customized_response by error",
                               self.e.ty)>> \o conv.trace \o set.trace,
                 set.calls)

\* ------------------------------------------------------------- futures
\* An inner future F: Future<Output = Result<T, E>>: it answers Pending
\* `left` more times and then Ready(output).
Futures == [id : FutureIds, left : 0..MaxPending, output : RawResults]

\* F::poll: the answer and the future afterwards.
future_poll(future) ==
    IF future.left = 0
    THEN [ready |-> TRUE, output |-> future.output, future |-> future]
    ELSE [ready |-> FALSE, future |-> [future EXCEPT !.left = @ - 1]]

\* enum MapErrWithStatus<F>
Incomplete(future, status_code) ==
    [tag |-> "Incomplete", future |-> future, status |-> status_code]
Complete == [tag |-> "Complete"]
\* No wrapper has been created.
Absent == [tag |-> "Absent"]

\* MapErrWithStatus::new
new(future, status_code) == Incomplete(future, status_code)

\* impl MapHandlerErrorFuture for F: map_err_with_status
MapHandlerErrorFuture_map_err_with_status(self, status_code) ==
    new(self, status_code)

\* The wrapper after it was dropped; `was` is the variant it was dropped in.
Dropped(self) == [tag |-> "Dropped", was |-> self.tag]

\* Mutant of is_terminated: the match is on the Incomplete variant.
is_terminated_incomplete(self) == self.tag = "Incomplete"

\* <MapErrWithStatus as FusedFuture>::is_terminated
is_terminated(self) == self.tag = "Complete"

\* Poll<Self::Output>, or the panic that ends a poll.
Pending == [kind |-> "Pending"]
Ready(output) == [kind |-> "Ready", value |-> output]
Panic == [kind |-> "Panic"]
NotPolled == [kind |-> "NotPolled"]

\* Mutant of poll: the output is converted with the default status.
poll_default_status(self) ==
    IF self.tag = "Incomplete"
    THEN LET p == future_poll(self.future) IN
         IF p.ready
         THEN LET m == map_err_with_status(p.output, INTERNAL_SERVER_ERROR) IN
              [ret |-> Ready(m.out), self |-> Complete,
               trace |-> m.trace, inner |-> 1]
         ELSE [ret |-> Pending,
               self |-> [self EXCEPT !.future = p.future],
               trace |-> <<>>, inner |-> 1]
    ELSE [ret |-> Panic, self |-> self, trace |-> <<>>, inner |-> 0]

\* Mutant of poll: a Complete wrapper answers Pending instead of panicking.
poll_fused(self) ==
    IF self.tag = "Incomplete"
    THEN LET p == future_poll(self.future) IN
         IF p.ready
         THEN LET m == map_err_with_status(p.output, self.status) IN
              [ret |-> Ready(m.out), self |-> Complete,
               trace |-> m.trace, inner |-> 1]
         ELSE [ret |-> Pending,
               self |-> [self EXCEPT !.future = p.future],
               trace |-> <<>>, inner |-> 1]
    ELSE [ret |-> Pending, self |-> self, trace |-> <<>>, inner |-> 0]

\* Mutant of poll: the wrapper is replaced by Complete before the inner
\* future's answer is looked at.
poll_eager_complete(self) ==
    IF self.tag = "Incomplete"
    THEN LET p == future_poll(self.future) IN
         IF p.ready
         THEN LET m == map_err_with_status(p.output, self.status) IN
              [ret |-> Ready(m.out), self |-> Complete,
               trace |-> m.trace, inner |-> 1]
         ELSE [ret |-> Pending, self |-> Complete,
               trace |-> <<>>, inner |-> 1]
    ELSE [ret |-> Panic, self |-> self, trace |-> <<>>, inner |-> 0]

\* Mutant of poll: the wrapper is not replaced by Complete on Ready.
poll_no_replace(self) ==
    IF self.tag = "Incomplete"
    THEN LET p == future_poll(self.future) IN
         IF p.ready
         THEN LET m == map_err_with_status(p.output, self.status) IN
              [ret |-> Ready(m.out), self |-> self,
               trace |-> m.trace, inner |-> 1]
         ELSE [ret |-> Pending,
               self |-> [self EXCEPT !.future = p.future],
               trace |-> <<>>, inner |-> 1]
    ELSE [ret |-> Panic, self |-> self, trace |-> <<>>, inner |-> 0]

\* Mutant of poll: the conversion is traced before the inner future's
\* answer is looked at.
poll_eager_trace(self) ==
    IF self.tag = "Incomplete"
    THEN LET p == future_poll(self.future) IN
         IF p.ready
         THEN LET m == map_err_with_status(p.output, self.status) IN
              [ret |-> Ready(m.out), self |-> Complete,
               trace |-> m.trace, inner |-> 1]
         ELSE [ret |-> Pending,
               self |-> [self EXCEPT !.future = p.future],
               trace |-> <<TraceRecord("converting Error to HandlerError",
                                       "pending")>>,
               inner |-> 1]
    ELSE [ret |-> Panic, self |-> self, trace |-> <<>>, inner |-> 0]

\* Mutant of poll: the Complete wrapper keeps the inner future and polls it
\* again before it panics.
poll_keep_future(self) ==
    IF self.tag = "Incomplete"
    THEN LET p == future_poll(self.future) IN
         IF p.ready
         THEN LET m == map_err_with_status(p.output, self.status) IN
              [ret |-> Ready(m.out),
               self |-> [tag |-> "Complete", future |-> p.future],
               trace |-> m.trace, inner |-> 1]
         ELSE [ret |-> Pending,
               self |-> [self EXCEPT !.future = p.future],
               trace |-> <<>>, inner |-> 1]
    ELSE [ret |-> Panic, self |-> self, trace |-> <<>>, inner |-> 1]

\* Mutant of poll: the inner future's Ready is answered with a Pending of
\* the wrapper's own and the output is not delivered.
poll_extra_pending(self) ==
    IF self.tag = "Incomplete"
    THEN LET p == future_poll(self.future) IN
         IF p.ready
         THEN [ret |-> Pending, self |-> self, trace |-> <<>>, inner |-> 1]
         ELSE [ret |-> Pending,
               self |-> [self EXCEPT !.future = p.future],
               trace |-> <<>>, inner |-> 1]
    ELSE [ret |-> Panic, self |-> self, trace |-> <<>>, inner |-> 0]

\* <MapErrWithStatus as Future>::poll: the answer, the wrapper afterwards,
\* the log records emitted and the number of polls of the inner future.
poll(self) ==
    IF self.tag = "Incomplete"
    THEN LET p == future_poll(self.future) IN
         IF p.ready
         THEN LET m == map_err_with_status(p.output, self.status) IN
              [ret |-> Ready(m.out), self |-> Complete,
               trace |-> m.trace, inner |-> 1]
         ELSE [ret |-> Pending,
               self |-> [self EXCEPT !.future = p.future],
               trace |-> <<>>, inner |-> 1]
    ELSE [ret |-> Panic, self |-> self, trace |-> <<>>, inner |-> 0]

\* ------------------------------------------------------------- state
VARIABLES
    res,           \* the handler's value: a Result, an inner future, or moved
    fut,           \* the MapErrWithStatus wrapper
    pollResult,    \* what the last poll of the wrapper returned
    logs,          \* log records emitted so far
    origin,        \* the Result the handler's computation produces
    last,          \* the last operation, its arguments and the value before
    nops,          \* container operations so far
    pollCount,     \* polls of the wrapper so far
    innerPolls,    \* polls of the inner future so far
    readyCount,    \* Poll::Ready answers of the wrapper so far
    closureCalls,  \* invocations of the caller's closures so far
    materialized   \* HandlerErrors turned into a response so far

vars == <<res, fut, pollResult, logs, origin, last, nops, pollCount,
          innerPolls, readyCount, closureCalls, materialized>>

Raw(r) == [kind |-> "raw", v |-> r]
Converted(r) == [kind |-> "converted", v |-> r]
InnerFuture(f) == [kind |-> "future", future |-> f]
Moved == [kind |-> "moved"]
Response(rsp) == [kind |-> "response", rsp |-> rsp]

Init ==
    /\ \/ \E r \in RawResults : res = Raw(r) /\ origin = r
       \/ \E f \in Futures : res = InnerFuture(f) /\ origin = f.output
    /\ fut = Absent
    /\ pollResult = NotPolled
    /\ logs = <<>>
    /\ last = [op |-> "init"]
    /\ nops = 0
    /\ pollCount = 0
    /\ innerPolls = 0
    /\ readyCount = 0
    /\ closureCalls = 0
    /\ materialized = 0

FutUnchanged == UNCHANGED <<fut, pollResult, pollCount, innerPolls, readyCount>>

\* A container operation with effect record eff took res to Converted(eff.out).
Apply(eff, op) ==
    /\ nops < MaxOps
    /\ nops' = nops + 1
    /\ res' = Converted(eff.out)
    /\ logs' = logs \o eff.trace
    /\ closureCalls' = closureCalls + eff.calls
    /\ last' = op
    /\ UNCHANGED <<origin, materialized>>
    /\ FutUnchanged

\* `?` / .into() on a Result<T, E>: map_err(HandlerError::from)
From ==
    /\ res.kind = "raw"
    /\ IF res.v.ok
       THEN Apply(Eff(res.v, <<>>, 0), [op |-> "from", before |-> res.v])
       ELSE LET c == HandlerError_from(res.v.e) IN
            Apply(Eff(Err(c.out), c.trace, c.calls),
                  [op |-> "from", before |-> res.v])

\* HandlerError::with_status on the error of an Err
WithStatus ==
    /\ res.kind = "converted" /\ ~res.v.ok
    /\ \E s \in StatusCodes :
          Apply(Eff(Err(with_status(res.v.e, s)), <<>>, 0),
                [op |-> "with_status", status |-> s, before |-> res.v])

\* HandlerError::set_customized_response_body on the error of an Err
SetCustomizedResponseBody ==
    /\ res.kind = "converted" /\ ~res.v.ok
    /\ \E f \in Closures :
          LET c == set_customized_response_body(res.v.e, State, f) IN
          Apply(Eff(Err(c.out), c.trace, c.calls),
                [op |-> "set_customized_response_body", f |-> f,
                 before |-> res.v])

\* Result<T, E>::map_err_with_status
MapErrWithStatus ==
    /\ res.kind = "raw"
    /\ \E s \in StatusCodes :
          Apply(map_err_with_status(res.v, s),
                [op |-> "map_err_with_status", status |-> s, before |-> res.v])

\* Result<T, HandlerError>::map_err_with_status
MapErrWithStatusHandlerError ==
    /\ res.kind = "converted"
    /\ \E s \in StatusCodes :
          Apply(map_err_with_status_HandlerError(res.v, s),
                [op |-> "map_err_with_status_HandlerError", status |-> s,
                 before |-> res.v])

\* Result<T, E>::map_err_to_customized_response
MapErrToCustomizedResponse ==
    /\ res.kind = "raw"
    /\ \E f \in ErrClosures :
          Apply(map_err_to_customized_response(res.v, State, f),
                [op |-> "map_err_to_customized_response", f |-> f,
                 before |-> res.v])

\* Result<T, E>::map_err_with_customized_response
MapErrWithCustomizedResponse ==
    /\ res.kind = "raw"
    /\ \E f \in Closures :
          Apply(map_err_with_customized_response(res.v, State, f),
                [op |-> "map_err_with_customized_response", f |-> f,
                 before |-> res.v])

\* F::map_err_with_status(status): the inner future moves into a wrapper
MapErrWithStatusFuture ==
    /\ res.kind = "future"
    /\ fut = Absent
    /\ \E s \in StatusCodes :
          /\ fut' = MapHandlerErrorFuture_map_err_with_status(res.future, s)
          /\ last' = [op |-> "future_map_err_with_status", status |-> s]
    /\ res' = Moved
    /\ UNCHANGED <<pollResult, logs, origin, nops, pollCount, innerPolls,
                   readyCount, closureCalls, materialized>>

\* One poll of the wrapper; a Ready output is handed to the caller.
Poll ==
    /\ fut.tag \in {"Incomplete", "Complete"}
    /\ pollCount < MaxPolls
    /\ LET p == poll(fut) IN
       /\ fut' = p.self
       /\ pollResult' = p.ret
       /\ logs' = logs \o p.trace
       /\ innerPolls' = innerPolls + p.inner
       /\ readyCount' = readyCount + (IF p.ret.kind = "Ready" THEN 1 ELSE 0)
       /\ res' = IF p.ret.kind = "Ready" THEN Converted(p.ret.value) ELSE res
    /\ pollCount' = pollCount + 1
    /\ last' = [op |-> "poll", before |-> fut]
    /\ UNCHANGED <<origin, nops, closureCalls, materialized>>

\* HandlerError::into_response(state): the error is consumed
IntoResponse ==
    /\ res.kind = "converted" /\ ~res.v.ok
    /\ LET m == HandlerError_into_response(res.v.e, State) IN
       /\ res' = Response(m.out)
       /\ logs' = logs \o m.trace
    /\ materialized' = materialized + 1
    /\ last' = [op |-> "into_response", before |-> res.v]
    /\ UNCHANGED <<origin, nops, closureCalls>>
    /\ FutUnchanged

\* The wrapper is dropped, with the inner future if it still holds one.
Drop ==
    /\ fut.tag \in {"Incomplete", "Complete"}
    /\ fut' = Dropped(fut)
    /\ last' = [op |-> "drop", before |-> fut]
    /\ UNCHANGED <<res, pollResult, logs, origin, nops, pollCount, innerPolls,
                   readyCount, closureCalls, materialized>>

\* FusedFuture::is_terminated(&self): the scheduler asks without polling
IsTerminated ==
    /\ fut.tag \in {"Incomplete", "Complete"}
    /\ last' = [op |-> "is_terminated", ret |-> is_terminated(fut)]
    /\ UNCHANGED <<res, fut, pollResult, logs, origin, nops, pollCount,
                   innerPolls, readyCount, closureCalls, materialized>>

Next ==
    \/ From
    \/ WithStatus
    \/ SetCustomizedResponseBody
    \/ MapErrWithStatus
    \/ MapErrWithStatusHandlerError
    \/ MapErrToCustomizedResponse
    \/ MapErrWithCustomizedResponse
    \/ MapErrWithStatusFuture
    \/ Poll
    \/ IntoResponse
    \/ Drop
    \/ IsTerminated

Spec == Init /\ [][Next]_vars

\* A poll by a scheduler that asks is_terminated first.
PollNotTerminated == ~is_terminated(fut) /\ Poll

\* The operations of a run in which the wrapper is never dropped.
NextNoDrop ==
    \/ From
    \/ WithStatus
    \/ SetCustomizedResponseBody
    \/ MapErrWithStatus
    \/ MapErrWithStatusHandlerError
    \/ MapErrToCustomizedResponse
    \/ MapErrWithCustomizedResponse
    \/ MapErrWithStatusFuture
    \/ Poll
    \/ IntoResponse
    \/ IsTerminated

\* The wrapper is not dropped and the scheduler keeps polling it while it
\* is not terminated.
FairSpec == Init /\ [][NextNoDrop]_vars /\ WF_vars(PollNotTerminated)

\* ------------------------------------------------------------- claims
\* The HandlerError held in res, when res is an Err of a converted Result.
HasError == res.kind = "converted" /\ ~res.v.ok
\* The last step was a poll of the wrapper.
PollStep == pollCount' = pollCount + 1
\* The inner future answers Ready on its next poll.
InnerReady(w) == w.tag = "Incomplete" /\ w.future.left = 0
\* The inner future answers Pending on its next poll.
InnerPending(w) == w.tag = "Incomplete" /\ w.future.left > 0

\* C1: after any sequence of conversions, with_status,
\* set_customized_response_body and the map_err_* combinators, a customized
\* response body that is Some(r) has r.status() equal to status_code.
C1_BodyStatusEqualsStatusCode ==
    HasError =>
        (is_some(res.v.e.customized_response_body) =>
            unwrap(res.v.e.customized_response_body).status
                = status(res.v.e))

\* C2: the poll of an Incomplete wrapper on which the inner future returns
\* Ready(r) leaves the wrapper Complete and returns Ready of the status-only
\* mapping of r: Ok(v) as Ok(v), Err(e) as Err(c) with c.status() the
\* wrapper's status, cause e and no customized response body.
C2_ReadyPollCompletesAndMaps ==
    (last.op = "poll" /\ InnerReady(last.before)) =>
        /\ fut = Complete
        /\ pollResult.kind = "Ready"
        /\ LET r == last.before.future.output
               out == pollResult.value
           IN  IF r.ok
               THEN out = Ok(r.v)
               ELSE /\ ~out.ok
                    /\ status(out.e) = last.before.status
                    /\ out.e.cause.type_id = r.e.ty
                    /\ out.e.cause.object = r.e
                    /\ out.e.customized_response_body = None

C2_Witness ==
    /\ last.op = "poll"
    /\ InnerReady(last.before)
    /\ pollCount = 3
    /\ pollResult.kind = "Ready"
    /\ ~pollResult.value.ok
    /\ status(pollResult.value.e) = 418

\* C3: every poll of a wrapper that is already Complete ends in the panic:
\* it returns neither Ready nor Pending, produces no HandlerError and does
\* not poll the inner future.
C3_PollAfterCompletePanics ==
    [][(PollStep /\ fut.tag = "Complete") =>
          /\ pollResult' = Panic
          /\ fut' = fut
          /\ res' = res
          /\ logs' = logs
          /\ innerPolls' = innerPolls
          /\ readyCount' = readyCount]_vars

C3_Witness ==
    /\ last.op = "poll"
    /\ last.before.tag = "Complete"
    /\ pollResult = Panic
    /\ readyCount = 1

\* C4: every poll of an Incomplete wrapper on which the inner future returns
\* Pending returns Pending and leaves the wrapper Incomplete with the same
\* inner future and the same status; no HandlerError is constructed.
C4_PendingPollChangesNothing ==
    [][(PollStep /\ InnerPending(fut)) =>
          /\ pollResult' = Pending
          /\ fut'.tag = "Incomplete"
          /\ fut'.future.id = fut.future.id
          /\ fut'.future.output = fut.future.output
          /\ fut'.status = fut.status
          /\ res' = res
          /\ logs' = logs
          /\ readyCount' = readyCount]_vars

C4_Witness ==
    /\ last.op = "poll"
    /\ InnerPending(last.before)
    /\ pollCount = 2
    /\ pollResult = Pending
    /\ fut.tag = "Incomplete"

\* C5: over any sequence of polls the wrapper goes from Incomplete to
\* Complete at most once and never back, at most one Ready is yielded, and
\* the status mapping is applied only on the poll that observes the inner
\* future's completion, never before.
C5_OneWayOnce ==
    [][/\ fut.tag = "Complete" => fut'.tag \in {"Complete", "Dropped"}
       /\ fut.tag = "Dropped" => fut' = fut
       /\ readyCount' <= 1
       /\ (fut.tag = "Incomplete" /\ fut'.tag = "Complete") =>
             (PollStep /\ InnerReady(fut) /\ readyCount' = readyCount + 1)
       /\ (readyCount' # readyCount \/ (res.kind = "moved" /\ res' # res)) =>
             (PollStep /\ InnerReady(fut) /\ fut'.tag = "Complete")
       /\ fut'.tag = "Incomplete" =>
             (res' = Moved /\ readyCount' = 0 /\ logs' = <<>>)]_vars

C5_Witness ==
    /\ fut.tag = "Complete"
    /\ readyCount = 1
    /\ pollCount = MaxPolls
    /\ innerPolls = 2
    /\ pollResult = Panic

\* C6: for every status s, the synchronous map_err_with_status(s) maps
\* Err(e) to Err(c) with c.status() = s and returns Ok(v) unchanged, for the
\* implementation on Result<T, E> and the one on Result<T, HandlerError>.
C6_MapErrWithStatus ==
    last.op \in {"map_err_with_status", "map_err_with_status_HandlerError"} =>
        /\ res.kind = "converted"
        /\ IF last.before.ok
           THEN res.v = last.before
           ELSE ~res.v.ok /\ status(res.v.e) = last.status

C6_Witness ==
    /\ last.op = "map_err_with_status_HandlerError"
    /\ ~last.before.ok
    /\ status(last.before.e) = 200
    /\ HasError
    /\ status(res.v.e) = 418

\* C7: HandlerError::from(e) has status() 500 Internal Server Error, cause e
\* and no customized response body.
C7_FromDefaults ==
    (last.op = "from" /\ ~last.before.ok) =>
        /\ HasError
        /\ status(res.v.e) = 500
        /\ res.v.e.cause.type_id = last.before.e.ty
        /\ res.v.e.cause.object = last.before.e
        /\ res.v.e.customized_response_body = None

C7_Witness ==
    /\ last.op = "from"
    /\ HasError
    /\ res.v.e.cause.object = [ty |-> "DummyError", msg |-> 2]

\* C8: for an error e of concrete type E and every status s,
\* HandlerError::from(e).with_status(s) has status() = s and
\* downcast_cause_ref::<E>() is still Some.
C8_WithStatus ==
    last.op = "with_status" =>
        /\ HasError
        /\ status(res.v.e) = last.status
        /\ is_some(downcast_cause_ref(res.v.e, origin.e.ty))

C8_Witness ==
    /\ last.op = "with_status"
    /\ nops = 2
    /\ status(last.before.e) = 500
    /\ last.before.e.customized_response_body = None
    /\ HasError
    /\ status(res.v.e) = 418
    /\ origin.e.ty = "io::Error"

\* Types T asked for in downcast queries: the stored types and one that is
\* never stored.
QueriedTypes == ErrorTypes \cup {"fmt::Error"}

\* C9: for a HandlerError whose cause was converted from a value of concrete
\* type E, downcast_cause_ref::<T>() and downcast_cause_mut::<T>() are Some
\* exactly when T is E and None for every other T, and the two agree.
C9_DowncastExactType ==
    HasError =>
        \A T \in QueriedTypes :
            /\ is_some(downcast_cause_ref(res.v.e, T)) <=> (T = origin.e.ty)
            /\ is_some(downcast_cause_mut(res.v.e, T)) <=> (T = origin.e.ty)
            /\ ~is_some(downcast_cause_ref(res.v.e, T)) =>
                  downcast_cause_ref(res.v.e, T) = None
            /\ ~is_some(downcast_cause_mut(res.v.e, T)) =>
                  downcast_cause_mut(res.v.e, T) = None

C9_Witness ==
    /\ HasError
    /\ origin = Err([ty |-> "DummyError", msg |-> 1])
    /\ is_some(downcast_cause_ref(res.v.e, "DummyError"))
    /\ is_some(downcast_cause_mut(res.v.e, "DummyError"))
    /\ downcast_cause_ref(res.v.e, "io::Error") = None
    /\ downcast_cause_mut(res.v.e, "io::Error") = None

\* C10: map_err_with_customized_response of Err(e) with a closure whose
\* rendered response has status r yields Err(c) with c.status() = r (also
\* when r is 200), c's customized response body that response and c's cause
\* e; of Ok(v) it returns Ok(v) and the closure is not invoked.
C10_FixedResponseMapping ==
    [][(res.kind = "raw" /\ last'.op = "map_err_with_customized_response") =>
          IF res.v.ok
          THEN /\ res' = Converted(res.v)
               /\ closureCalls' = closureCalls
          ELSE /\ res'.kind = "converted"
               /\ ~res'.v.ok
               /\ status(res'.v.e) = last'.f.ret.status
               /\ is_some(res'.v.e.customized_response_body)
               /\ LET rsp == unwrap(res'.v.e.customized_response_body) IN
                  /\ rsp.status = last'.f.ret.status
                  /\ rsp.body = last'.f.ret.body
               /\ res'.v.e.cause.type_id = res.v.e.ty
               /\ res'.v.e.cause.object = res.v.e
               /\ closureCalls' = closureCalls + 1]_vars

C10_Witness ==
    /\ last.op = "map_err_with_customized_response"
    /\ HasError
    /\ status(res.v.e) = 200
    /\ is_some(res.v.e.customized_response_body)
    /\ closureCalls = 1

\* C11: map_err_to_customized_response of Err(e) invokes the closure exactly
\* once with e and the request state; for the pair (e2, v) it returns, the
\* result is Err(c) with cause e2, customized response body v rendered
\* against the state and c.status() that response's status; of Ok(v0) it
\* returns Ok(v0) and the closure is never invoked.
C11_MappedErrorMapping ==
    [][(res.kind = "raw" /\ last'.op = "map_err_to_customized_response") =>
          IF res.v.ok
          THEN /\ res' = Converted(res.v)
               /\ closureCalls' = closureCalls
          ELSE LET e2 == [ty |-> res.v.e.ty, msg |-> last'.f.msg]
                   v == last'.f.ret
               IN  /\ res'.kind = "converted"
                   /\ ~res'.v.ok
                   /\ closureCalls' = closureCalls + 1
                   /\ res'.v.e.cause.type_id = e2.ty
                   /\ res'.v.e.cause.object = e2
                   /\ res'.v.e.customized_response_body
                         = Some([status |-> v.status, body |-> v.body,
                                 request_id |-> State.request_id])
                   /\ status(res'.v.e) = v.status]_vars

C11_Witness ==
    /\ last.op = "map_err_to_customized_response"
    /\ ~last.before.ok
    /\ last.before.e.msg = 1
    /\ HasError
    /\ res.v.e.cause.object.msg = 2
    /\ status(res.v.e) = 503
    /\ closureCalls = 1

\* C13: the cause is never discarded or replaced by container operations:
\* after any sequence of with_status, set_customized_response_body and
\* map_err_with_status on a HandlerError created from an error of concrete
\* type E, downcast_cause_ref::<E>() is still Some, also with a customized
\* response body attached.
C13_CauseKept ==
    [][(HasError /\ HasError') =>
          /\ res'.v.e.cause = res.v.e.cause
          /\ is_some(downcast_cause_ref(res'.v.e, origin.e.ty))]_vars

C13_Witness ==
    /\ HasError
    /\ nops = MaxOps
    /\ last.op = "map_err_with_status_HandlerError"
    /\ is_some(res.v.e.customized_response_body)
    /\ is_some(downcast_cause_ref(res.v.e, "DummyError"))

\* C17: for a raw error e and status s, map_err_with_status(s) gives the
\* container HandlerError::from(e).with_status(s) gives (same status, same
\* cause, no customized response body), for the Result combinator and for
\* the value the MapErrWithStatus future yields.
C17_EquivalentToFromWithStatus ==
    /\ (last.op = "map_err_with_status" /\ ~last.before.ok) =>
          /\ HasError
          /\ res.v.e = with_status(HandlerError_from(last.before.e).out,
                                   last.status)
    /\ (last.op = "poll" /\ InnerReady(last.before)
          /\ ~last.before.future.output.ok) =>
          /\ pollResult.kind = "Ready"
          /\ ~pollResult.value.ok
          /\ pollResult.value.e
                = with_status(HandlerError_from(last.before.future.output.e).out,
                              last.before.status)

C17_Witness ==
    /\ last.op = "poll"
    /\ InnerReady(last.before)
    /\ last.before.status = 200
    /\ pollResult.kind = "Ready"
    /\ ~pollResult.value.ok
    /\ pollResult.value.e.cause.type_id = "io::Error"

\* C18: overriding the status of an already-converted HandlerError, by
\* with_status(s) or by map_err_with_status(s) on Result<T, HandlerError>,
\* changes only status_code: the customized response body (present or
\* absent, with its own status) and the cause stay as they were.
C18_StatusOverrideFrame ==
    (last.op \in {"with_status", "map_err_with_status_HandlerError"}
        /\ ~last.before.ok) =>
        /\ HasError
        /\ res.v.e.customized_response_body
              = last.before.e.customized_response_body
        /\ res.v.e.cause = last.before.e.cause
        /\ res.v.e = [last.before.e EXCEPT !.status_code = last.status]

C18_Witness ==
    /\ last.op = "with_status"
    /\ last.status = 418
    /\ HasError
    /\ is_some(res.v.e.customized_response_body)
    /\ unwrap(res.v.e.customized_response_body).status = 503
    /\ status(res.v.e) = 418

\* The warn-level records logged so far.
WarnRecords == SelectSeq(logs, LAMBDA r : r.level = "warn")

\* C12: into_response returns the customized response body unchanged when
\* there is one, and otherwise an empty-bodied response with the
\* container's status: an unmapped error gives 500 with empty body, a
\* status-mapped error that status with empty body, a customized error its
\* attached response.
C12_Materialization ==
    last.op = "into_response" =>
        /\ res.kind = "response"
        /\ LET h == last.before.e IN
           IF h.customized_response_body # None
           THEN res.rsp = h.customized_response_body[1]
           ELSE /\ res.rsp.status = h.status_code
                /\ res.rsp.body = ""

C12_Witness ==
    /\ last.op = "into_response"
    /\ res.kind = "response"
    /\ last.before.e.customized_response_body = None
    /\ last.before.e.status_code = 418
    /\ res.rsp.status = 418
    /\ res.rsp.body = ""

\* C14: each HandlerError is materialized at most once and each
\* materialization emits exactly one warn-level record: the number of
\* materialization records equals the number of containers materialized.
C14_OneRecordPerMaterialization ==
    /\ materialized <= 1
    /\ Len(WarnRecords) = materialized
    /\ res.kind = "response" <=> materialized = 1

C14_Witness ==
    /\ materialized = 1
    /\ Len(WarnRecords) = 1
    /\ is_some(last.before.e.customized_response_body)

\* C19: the numeric status written in the materialization log record equals
\* the status of the response the same materialization returns.
C19_LoggedStatusIsResponseStatus ==
    res.kind = "response" =>
        logs[Len(logs)].status = res.rsp.status

\* C15: if the wrapper is dropped while still Incomplete, after zero or
\* more polls that returned Pending, it has constructed no HandlerError,
\* emitted no conversion trace and no materialization record, and yielded no
\* result.
C15_DropWhileIncompleteIsSilent ==
    (fut.tag = "Dropped" /\ fut.was = "Incomplete") =>
        /\ res = Moved
        /\ logs = <<>>
        /\ materialized = 0
        /\ readyCount = 0
        /\ pollResult.kind \in {"NotPolled", "Pending"}

C15_Witness ==
    /\ fut.tag = "Dropped"
    /\ fut.was = "Incomplete"
    /\ pollCount = 2
    /\ pollResult = Pending

\* C16: is_terminated() returns true exactly when the wrapper is Complete,
\* that is exactly when an earlier poll returned Ready; it returns false for
\* a fresh wrapper and after every poll that returned Pending; calling it
\* changes no state and does not poll the inner future.
C16_IsTerminated ==
    [][(last'.op = "is_terminated" /\ last' # last) =>
          /\ last'.ret <=> (fut.tag = "Complete")
          /\ last'.ret <=> (readyCount = 1)
          /\ pollCount = 0 => ~last'.ret
          /\ (last.op = "poll" /\ pollResult = Pending) => ~last'.ret
          /\ UNCHANGED <<fut, res, pollResult, logs, pollCount, innerPolls,
                         readyCount, closureCalls, materialized>>]_vars

C16_Witness ==
    /\ last.op = "is_terminated"
    /\ last.ret
    /\ fut.tag = "Complete"
    /\ readyCount = 1

\* C20: the wrapper polls its inner future exactly once per poll while
\* Incomplete and never again after the inner future returned Ready; the
\* inner future is released at the transition to Complete, so no sequence
\* of polls, a panicking re-poll included, polls a completed inner future.
C20_InnerPolledOncePerPoll ==
    [][/\ (PollStep /\ fut.tag = "Incomplete") => innerPolls' = innerPolls + 1
       /\ (PollStep /\ fut.tag = "Complete") => innerPolls' = innerPolls
       /\ ~PollStep => innerPolls' = innerPolls
       /\ readyCount >= 1 => innerPolls' = innerPolls
       /\ fut'.tag = "Complete" => DOMAIN fut' = {"tag"}
       /\ fut'.tag = "Incomplete" => innerPolls' = pollCount']_vars

C20_Witness ==
    /\ last.op = "poll"
    /\ last.before.tag = "Complete"
    /\ pollResult = Panic
    /\ pollCount = 4
    /\ innerPolls = 3

\* C21: if the inner future returns Ready after finitely many polls and the
\* scheduler keeps polling the wrapper while it is not terminated, without
\* dropping it, the wrapper eventually is Complete and has delivered its
\* single Ready; it answers Pending only when the inner future did.
C21_EventuallyComplete ==
    /\ (fut.tag = "Incomplete") ~> (fut.tag = "Complete" /\ readyCount = 1)
    /\ [][(PollStep /\ pollResult'.kind = "Pending") => InnerPending(fut)]_vars
    /\ [][(PollStep /\ InnerReady(fut)) => pollResult'.kind = "Ready"]_vars

C21_Witness ==
    /\ fut.tag = "Complete"
    /\ readyCount = 1
    /\ pollCount = MaxPending + 1
    /\ innerPolls = MaxPending + 1
    /\ last.op = "poll"

====
